---------------------------- MODULE Spec2Model ----------------------------
(***************************************************************************)
(* A model of the pymanopt manifolds Stiefel, FixedRankEmbedded and        *)
(* Product (src/pymanopt/manifolds/{stiefel,fixed_rank,product}.py).       *)
(*                                                                         *)
(* Numbers.  numpy works on IEEE doubles; the model computes exactly, on   *)
(* the numbers (n/d)*sqrt(r) with n an integer, d > 0 and r a square-free  *)
(* positive integer, which are closed under *, /, sqrt of a rational and   *)
(* under + of two numbers of the same radical.  Rounding is therefore       *)
(* abstracted away ("within tolerance" reads "exactly").  The non-finite   *)
(* values of IEEE arithmetic are kept, since numpy's array division does   *)
(* not raise on a zero divisor: d = 0 marks them (n = 1: +inf, n = -1:     *)
(* -inf, n = 0: nan).  Signed zeros are not distinguished.                 *)
(***************************************************************************)
EXTENDS Integers, Sequences, FiniteSets, TLC

VARIABLES
    \* construction and attribute assignment
    obj,        \* the object the last constructor call returned, or NoObj
    call,       \* the last call: [op, args]
    outcome,    \* "ok", or the exception the last call raised
    given,      \* the arguments the Product in obj was constructed from
    \* a FixedRankEmbedded manifold and the values its caller holds
    frMan,      \* the manifold
    frX,        \* the current point <<U, S, Vt>>, NoPoint before rand()
    frXby,      \* the operation that returned frX: "rand" or "retr"
    frXprev,    \* the point frX was retracted from
    frG,        \* the tangent vector last returned, or NoVec
    frAt,       \* where frG is attached: "cur" (at frX) or "prev" (at frXprev)
    frH,        \* the tangent vector at frX returned before frG, or NoVec
    frDirty,    \* <<g, h>>: a division by zero went into frG, into frH
    frOp,       \* the last operation
    frDiv,      \* the divisors of the last egrad2rgrad
    frSteps,    \* the number of operations since rand(), transp aside
    frRetrs,    \* the number of retr steps since rand()
    mnMan,      \* the manifold in use through the common interface
    mnX,        \* the point rand() returned
    mnG,        \* the tangent vector the last proj returned
    mnH,        \* the tangent vector the proj before returned
    mnAgain,    \* mnG is proj(mnX, mnH)
    mnOut,      \* the last metric query: its name, its value, the factors' values
    \* a Product over factors whose operations are left uninterpreted
    dgMan,      \* the Product
    dgX,        \* the point last returned, or NoVec
    dgY,        \* the point returned before dgX
    dgG,        \* the tangent vector last returned, or NoVec
    dgH,        \* the tangent vector returned before dgG
    dgCall,     \* the last call: [op, args, c], c the scalar of a multiplication
    dgRes,      \* the value the last call returned
    dgSteps,    \* the number of calls made
    \* a Stiefel manifold and the values its caller holds
    stMan,      \* the manifold
    stX,        \* the point last returned, NoPoint before rand()
    stG,        \* the tangent vector last returned, or NoVec
    stDiag,     \* per block, diag(r) of the QR factorisation in the last retr
    stSign,     \* per block, the correction factors the last retr applied
    stOp,       \* the last operation
    stSteps     \* the number of calls made

---------------------------------------------------------------------------
(* Exact arithmetic *)

RECURSIVE GCD(_, _)
GCD(a, b) == IF b = 0 THEN a ELSE GCD(b, a % b)

Abs(x) == IF x < 0 THEN -x ELSE x

Sign(x) == IF x < 0 THEN -1 ELSE IF x > 0 THEN 1 ELSE 0

\* the largest s with s*s dividing x (x >= 1)
RECURSIVE SqUp(_, _, _)
SqUp(x, s, best) ==
    IF s * s > x THEN best
    ELSE SqUp(x, s + 1, IF x % (s * s) = 0 THEN s ELSE best)

SqPart(x) == SqUp(x, 1, 1)

\* floor(sqrt(x)) by Newton's iteration
RECURSIVE Newton(_, _)
Newton(x, g) == IF (g + x \div g) \div 2 >= g THEN g ELSE Newton(x, (g + x \div g) \div 2)
ISqrt(x) == IF x = 0 THEN 0 ELSE Newton(x, x)
IsSquare(x) == ISqrt(x) * ISqrt(x) = x

Zero == [n |-> 0, d |-> 1, r |-> 1]
One == [n |-> 1, d |-> 1, r |-> 1]
NaN == [n |-> 0, d |-> 0, r |-> 1]
Inf(sgn) == [n |-> sgn, d |-> 0, r |-> 1]

\* (n/d)*sqrt(r) in normal form, for d > 0 and a square-free r >= 1
Reduce(n, d, r) ==
    IF n = 0 THEN Zero
    ELSE [n |-> n \div GCD(Abs(n), d), d |-> d \div GCD(Abs(n), d), r |-> r]

\* (n/d)*sqrt(r) in normal form, for d > 0 and r >= 1
Norm(n, d, r) ==
    IF r = 1 THEN Reduce(n, d, 1)
    ELSE Reduce(n * SqPart(r), d, r \div (SqPart(r) * SqPart(r)))

Int2R(i) == Norm(i, 1, 1)
Rat(a, b) == Norm(a, b, 1)

IsFinite(a) == a.d # 0
IsNaN(a) == a.d = 0 /\ a.n = 0
IsInf(a) == a.d = 0 /\ a.n # 0
IsZero(a) == a.d # 0 /\ a.n = 0

\* a value outside the representable numbers: evaluating it stops the check
Unrepresentable == CHOOSE x \in {} : TRUE

RNeg(a) == [a EXCEPT !.n = -a.n]

RMul(a, b) ==
    IF IsNaN(a) \/ IsNaN(b) THEN NaN
    ELSE IF IsInf(a) \/ IsInf(b)
         THEN IF IsZero(a) \/ IsZero(b) THEN NaN
              ELSE Inf(Sign(a.n) * Sign(b.n))
    ELSE IF IsZero(a) \/ IsZero(b) THEN Zero
    ELSE LET g1 == GCD(Abs(a.n), b.d)
             g2 == GCD(Abs(b.n), a.d)
             n == (a.n \div g1) * (b.n \div g2)
             d == (a.d \div g2) * (b.d \div g1)
         IN  IF a.r = 1 \/ b.r = 1 THEN Reduce(n, d, a.r * b.r)
             ELSE IF a.r = b.r THEN Reduce((n \div GCD(Abs(n), d)) * a.r, d \div GCD(Abs(n), d), 1)
             ELSE Norm(n, d, a.r * b.r)

RAdd(a, b) ==
    IF IsNaN(a) \/ IsNaN(b) THEN NaN
    ELSE IF IsInf(a) /\ IsInf(b) THEN (IF a.n = b.n THEN a ELSE NaN)
    ELSE IF IsInf(a) THEN a
    ELSE IF IsInf(b) THEN b
    ELSE IF IsZero(a) THEN b
    ELSE IF IsZero(b) THEN a
    ELSE IF a.r = b.r
         THEN LET g == GCD(a.d, b.d)
              IN  Reduce(a.n * (b.d \div g) + b.n * (a.d \div g), (a.d \div g) * b.d, a.r)
    ELSE Unrepresentable

RSub(a, b) == RAdd(a, RNeg(b))

\* 1/((n/d) sqrt r) = d sqrt r / (n r), for a finite non-zero a
RInv(a) == Reduce(Sign(a.n) * a.d, Abs(a.n) * a.r, a.r)

\* IEEE division: x/0 is +-inf for x # 0 and nan for x = 0, without raising
RDiv(a, b) ==
    IF IsNaN(a) \/ IsNaN(b) THEN NaN
    ELSE IF IsInf(b) THEN (IF IsInf(a) THEN NaN ELSE Zero)
    ELSE IF IsZero(b) THEN (IF IsZero(a) THEN NaN ELSE Inf(Sign(a.n)))
    ELSE IF IsInf(a) THEN Inf(Sign(a.n) * Sign(b.n))
    ELSE RMul(a, RInv(b))

\* the largest numerator and denominator whose square root is computed, and
\* the largest whose square root may be irrational
SqrtCap == 1000000000
SurdCap == 400

\* sqrt(a) is representable
HasSqrt(a) ==
    TRUE \in {~IsFinite(a), a.n <= 0,
              a.r = 1 /\ a.n <= SurdCap /\ a.d <= SurdCap,
              a.r = 1 /\ a.n <= SqrtCap /\ a.d <= SqrtCap /\ IsSquare(a.n) /\ IsSquare(a.d)}

\* sqrt(n/d) for coprime n, d >= 1: sn sqrt(nf df) / (sd df), where n = sn^2 nf
\* and d = sd^2 df with nf and df square-free
SurdSqrt(n, d) ==
    [n |-> SqPart(n), d |-> d \div SqPart(d),
     r |-> (n \div (SqPart(n) * SqPart(n))) * (d \div (SqPart(d) * SqPart(d)))]

\* np.sqrt
RSqrt(a) ==
    IF IsNaN(a) THEN NaN
    ELSE IF IsInf(a) THEN (IF a.n > 0 THEN a ELSE NaN)
    ELSE IF a.n < 0 THEN NaN
    ELSE IF a.n = 0 THEN Zero
    ELSE IF ~HasSqrt(a) THEN Unrepresentable
    ELSE IF IsSquare(a.n) /\ IsSquare(a.d) THEN [n |-> ISqrt(a.n), d |-> ISqrt(a.d), r |-> 1]
    ELSE SurdSqrt(a.n, a.d)

RSquare(a) == RMul(a, a)

\* a < b on finite numbers: by sign, then by the squares n*n*r/(d*d)
RLess(a, b) ==
    LET sqLess(x, y) == x.n * x.n * x.r * y.d * y.d < y.n * y.n * y.r * x.d * x.d
    IN  IF Sign(a.n) # Sign(b.n) THEN Sign(a.n) < Sign(b.n)
        ELSE IF a.r = 1 /\ b.r = 1 THEN a.n * b.d < b.n * a.d
        ELSE IF a.n > 0 THEN sqLess(a, b)
        ELSE IF a.n < 0 THEN sqLess(b, a)
        ELSE FALSE

RLeq(a, b) == a = b \/ RLess(a, b)

RECURSIVE RSumSeq(_)
RSumSeq(s) == IF s = <<>> THEN Zero ELSE RAdd(Head(s), RSumSeq(Tail(s)))

---------------------------------------------------------------------------
(* numpy arrays: a matrix is a sequence of rows, a vector a sequence *)

Rows(A) == Len(A)
Cols(A) == Len(A[1])

Zeros(m, n) == [i \in 1..m |-> [j \in 1..n |-> Zero]]
Eye(k) == [i \in 1..k |-> [j \in 1..k |-> IF i = j THEN One ELSE Zero]]
Diag(v) == [i \in 1..Len(v) |-> [j \in 1..Len(v) |-> IF i = j THEN v[i] ELSE Zero]]

T(A) == [j \in 1..Cols(A) |-> [i \in 1..Rows(A) |-> A[i][j]]]

\* A @ B
MatMul(A, B) ==
    [i \in 1..Rows(A) |-> [j \in 1..Cols(B) |->
        RSumSeq([l \in 1..Cols(A) |-> RMul(A[i][l], B[l][j])])]]

MatAdd(A, B) == [i \in 1..Rows(A) |-> [j \in 1..Cols(A) |-> RAdd(A[i][j], B[i][j])]]
MatSub(A, B) == [i \in 1..Rows(A) |-> [j \in 1..Cols(A) |-> RSub(A[i][j], B[i][j])]]
MatNeg(A) == [i \in 1..Rows(A) |-> [j \in 1..Cols(A) |-> RNeg(A[i][j])]]
\* c * A for a scalar c
MatScale(c, A) == [i \in 1..Rows(A) |-> [j \in 1..Cols(A) |-> RMul(c, A[i][j])]]
\* A / c for a scalar c
MatDivScalar(A, c) == [i \in 1..Rows(A) |-> [j \in 1..Cols(A) |-> RDiv(A[i][j], c)]]
\* A * B, elementwise
MatHad(A, B) == [i \in 1..Rows(A) |-> [j \in 1..Cols(A) |-> RMul(A[i][j], B[i][j])]]
\* A / v and A * v for a 1-d v: numpy broadcasts v along the last axis
MatDivCols(A, v) == [i \in 1..Rows(A) |-> [j \in 1..Cols(A) |-> RDiv(A[i][j], v[j])]]
MatMulCols(A, v) == [i \in 1..Rows(A) |-> [j \in 1..Cols(A) |-> RMul(A[i][j], v[j])]]
\* v[:, np.newaxis] * A
MatMulRows(v, A) == [i \in 1..Rows(A) |-> [j \in 1..Cols(A) |-> RMul(v[i], A[i][j])]]
\* np.hstack((A, B))
HStack(A, B) == [i \in 1..Rows(A) |-> A[i] \o B[i]]
\* np.vstack((A, B))
VStack(A, B) == A \o B

\* np.tensordot(A, B) with axes = 2: the Frobenius inner product
Tensordot(A, B) ==
    RSumSeq([i \in 1..Rows(A) |->
        RSumSeq([j \in 1..Cols(A) |-> RMul(A[i][j], B[i][j])])])

IsZeroMat(A) == \A i \in 1..Rows(A) : \A j \in 1..Cols(A) : IsZero(A[i][j])
IsFiniteMat(A) == \A i \in 1..Rows(A) : \A j \in 1..Cols(A) : IsFinite(A[i][j])

\* the columns of U are orthonormal
OrthoCols(U) == MatMul(T(U), U) = Eye(Cols(U))

---------------------------------------------------------------------------
(* Objects.  An instance is a record of its class and its instance          *)
(* attributes; the name strings the constructors format are left out.      *)

MaxDim == 3         \* shape parameters range over -1..MaxDim
MaxFactors == 2     \* Product is called with 0..MaxFactors arguments

NoObj == [cls |-> "NoneType"]

\* the base classes named in the class statements
Bases(cls) ==
    CASE cls = "Stiefel" -> {"EuclideanEmbeddedSubmanifold"}
      [] cls = "FixedRankEmbedded" -> {"EuclideanEmbeddedSubmanifold"}
      [] cls = "Product" -> {"Manifold"}
      [] cls = "EuclideanEmbeddedSubmanifold" -> {"Manifold"}
      [] OTHER -> {}

\* isinstance(v, cls)
IsInstance(v, cls) ==
    \/ v.cls = cls
    \/ cls \in Bases(v.cls)
    \/ \E b \in Bases(v.cls) : cls \in Bases(b)

Ok(v) == [raised |-> "", value |-> v]
Raise(e) == [raised |-> e, value |-> NoObj]

\* Stiefel.__init__ without the test p < 1
StiefelInitNoPCheck(n, p, k) ==
    IF n < p THEN Raise("ValueError: Need n >= p >= 1")
    ELSE IF k < 1 THEN Raise("ValueError: Need k >= 1")
    ELSE Ok([cls |-> "Stiefel", _n |-> n, _p |-> p, _k |-> k,
             _dimension |-> k * (n * p - (p * (p + 1)) \div 2),
             _point_layout |-> 1])

\* Stiefel(n, p, k)
StiefelInit(n, p, k) ==
    IF n < p \/ p < 1 THEN Raise("ValueError: Need n >= p >= 1")
    ELSE IF k < 1 THEN Raise("ValueError: Need k >= 1")
    ELSE Ok([cls |-> "Stiefel", _n |-> n, _p |-> p, _k |-> k,
             _dimension |-> k * (n * p - (p * (p + 1)) \div 2),
             _point_layout |-> 1])

\* FixedRankEmbedded(m, n, k)
FixedRankInit(m, n, k) ==
    LET sm == StiefelInit(m, k, 1)
        sn == StiefelInit(n, k, 1)
    IN  IF sm.raised # "" THEN sm
        ELSE IF sn.raised # "" THEN sn
        ELSE Ok([cls |-> "FixedRankEmbedded", _m |-> m, _n |-> n, _k |-> k,
                 _stiefel_m |-> sm.value, _stiefel_n |-> sn.value,
                 _dimension |-> (m + n - k) * k,
                 _point_layout |-> 3])

\* the loop of Product.__init__ over its arguments, in order
RECURSIVE ProductCheck(_)
ProductCheck(ms) ==
    IF ms = <<>> THEN ""
    ELSE IF ~IsInstance(Head(ms), "Manifold")
         THEN "ValueError: Unsupport manifold of type"
    ELSE IF IsInstance(Head(ms), "Product")
         THEN "ValueError: Nested product manifolds are not supported"
    ELSE ProductCheck(Tail(ms))

RECURSIVE SumDims(_)
SumDims(ms) == IF ms = <<>> THEN 0 ELSE Head(ms)._dimension + SumDims(Tail(ms))

\* Product.__init__ without the test for a nested Product
ProductInitNoNestedCheck(manifolds) ==
    IF Len(manifolds) = 0 THEN Raise("ValueError: At least one manifold required")
    ELSE IF \E i \in 1..Len(manifolds) : ~IsInstance(manifolds[i], "Manifold")
         THEN Raise("ValueError: Unsupport manifold of type")
    ELSE Ok([cls |-> "Product",
             _manifolds |-> manifolds,
             _dimension |-> SumDims(manifolds),
             _point_layout |-> [i \in 1..Len(manifolds) |-> manifolds[i]._point_layout],
             extra |-> {}])

\* Product(*manifolds)
ProductInit(manifolds) ==
    IF Len(manifolds) = 0 THEN Raise("ValueError: At least one manifold required")
    ELSE IF ProductCheck(manifolds) # "" THEN Raise(ProductCheck(manifolds))
    ELSE Ok([cls |-> "Product",
             _manifolds |-> manifolds,
             _dimension |-> SumDims(manifolds),
             _point_layout |-> [i \in 1..Len(manifolds) |-> manifolds[i]._point_layout],
             extra |-> {}])

\* the names the class Product and its bases define
ProductClassAttrs ==
    {"_TangentVector", "__init__", "__setattr__", "typicaldist", "inner", "norm",
     "dist", "proj", "egrad2rgrad", "ehess2rhess", "exp", "retr", "log", "rand",
     "randvec", "transp", "pairmean", "zerovec", "dim", "point_layout"}

\* hasattr(self, key) for a Product: extra holds the <<name, value>> pairs of the
\* instance attributes assigned after construction
HasAttr(self, key) ==
    \/ key \in ProductClassAttrs
    \/ key \in {"_manifolds", "_name", "_dimension", "_point_layout"}
    \/ \E a \in self.extra : a[1] = key

\* Product.__setattr__(self, key, value) on a constructed Product
ProductSetAttr(self, key, value) ==
    IF HasAttr(self, key) /\ key = "manifolds"
    THEN [raised |-> "AttributeError: Cannot override 'manifolds' attribute",
          value |-> self]
    ELSE Ok([self EXCEPT !.extra =
                {a \in self.extra : a[1] # key} \cup {<<key, value>>}])

\* the factor sequence the operations of a Product iterate over
Factors(self) == self._manifolds

---------------------------------------------------------------------------
(* numpy.linalg.  The factorisations are computed exactly where the result  *)
(* is rational: qr by Gram-Schmidt, svd for a matrix whose columns (or     *)
(* rows) are mutually orthogonal, where the singular values are the column *)
(* (row) norms.  On other inputs they yield NotExact and the operation      *)
(* using them is not taken.  A factor that the factorisation leaves free   *)
(* (the column of Q or of U for a zero pivot or a zero singular value) is  *)
(* completed with a unit vector orthogonal to the others.  Of the singular *)
(* vectors only the leading k pairs, which retr reads, are computed.       *)

NotExact == <<>>

IsRational(a) == a.d # 0 /\ a.r = 1
IsRationalMat(A) == \A i \in 1..Rows(A) : \A j \in 1..Cols(A) : IsRational(A[i][j])

Col(A, j) == [i \in 1..Rows(A) |-> A[i][j]]
FromCols(cs) == [i \in 1..Len(cs[1]) |-> [j \in 1..Len(cs) |-> cs[j][i]]]
Dot(u, v) == RSumSeq([i \in 1..Len(u) |-> RMul(u[i], v[i])])
VecScale(c, v) == [i \in 1..Len(v) |-> RMul(c, v[i])]
VecSub(u, v) == [i \in 1..Len(u) |-> RSub(u[i], v[i])]
VecNorm(v) == RSqrt(Dot(v, v))
IsZeroVec(v) == \A i \in 1..Len(v) : IsZero(v[i])
UnitVec(m, l) == [i \in 1..m |-> IF i = l THEN One ELSE Zero]

\* a unit vector orthogonal to every vector of qs: the first such vector of
\* the standard basis, when there is one
UnitEntries == {Zero, One, RNeg(One), Rat(3, 5), Rat(-3, 5), Rat(4, 5), Rat(-4, 5)}
Orth(qs, u) == \A i \in 1..Len(qs) : IsZero(Dot(qs[i], u))
StdComplements(m, qs) == {l \in 1..m : Orth(qs, UnitVec(m, l))}
OtherComplements(m, qs) == {u \in [1..m -> UnitEntries] : Dot(u, u) = One /\ Orth(qs, u)}
PickOther(other) == IF other # {} THEN CHOOSE u \in other : TRUE ELSE NotExact
PickComplement(m, std, qs) ==
    IF std # {} THEN UnitVec(m, CHOOSE l \in std : \A l2 \in std : l <= l2)
    ELSE PickOther(OtherComplements(m, qs))
Complement(m, qs) == PickComplement(m, StdComplements(m, qs), qs)

\* v / nrm for a rational norm nrm = sqrt(vv)
NormalisedBy(v, nrm) == IF ~IsRational(nrm) THEN NotExact ELSE VecScale(RInv(nrm), v)
Normalised(v, vv) == IF ~HasSqrt(vv) THEN NotExact ELSE NormalisedBy(v, RSqrt(vv))

\* the column a less its components along q_1..q_(j-1)
RECURSIVE Residual(_, _, _)
Residual(v, qs, i) ==
    IF i > Len(qs) THEN v
    ELSE Residual(VecSub(v, VecScale(Dot(qs[i], v), qs[i])), qs, i + 1)

\* the next column of Q for the residual v
NextQ(m, qs, v) == IF IsZeroVec(v) THEN Complement(m, qs) ELSE Normalised(v, Dot(v, v))

\* the columns q_1..q_k of Q, by Gram-Schmidt on the columns of A
RECURSIVE QRCols(_, _, _)
RECURSIVE QRAppend(_, _, _, _)
QRCols(A, j, qs) ==
    IF j > Cols(A) THEN qs
    ELSE QRAppend(A, j, qs, NextQ(Rows(A), qs, Residual(Col(A, j), qs, 1)))
QRAppend(A, j, qs, q) ==
    IF q = NotExact THEN NotExact ELSE QRCols(A, j + 1, Append(qs, q))

\* np.linalg.qr(A), the thin factorisation of an m x k matrix, m >= k
QRPair(A, Q) == <<Q, MatMul(T(Q), A)>>
QRFrom(A, qs) == IF qs = NotExact THEN NotExact ELSE QRPair(A, FromCols(qs))
QR(A) == IF ~IsRationalMat(A) THEN NotExact ELSE QRFrom(A, QRCols(A, 1, <<>>))

\* the columns of A are mutually orthogonal
OrthogonalCols(A) ==
    \A i \in 1..Cols(A) : \A j \in 1..Cols(A) :
        i # j => IsZero(Dot(Col(A, i), Col(A, j)))

\* the positions 1..n ordered by descending norm (ties: by position)
DescendingOrder(norms) ==
    LET before(i, j) == RLess(norms[j], norms[i]) \/ (norms[i] = norms[j] /\ i < j)
    IN  [r \in 1..Len(norms) |->
            CHOOSE i \in 1..Len(norms) :
                Cardinality({j \in 1..Len(norms) : before(j, i)}) = r - 1]

\* the first k left singular vectors for the columns of A taken in the order
\* ord: a column divided by its norm, or a complement for a zero column
LeftVector(A, a, nrm, fixed) ==
    IF IsZeroVec(a) THEN Complement(Rows(A), fixed) ELSE VecScale(RInv(nrm), a)
RECURSIVE LeftVectors(_, _, _, _, _, _)
RECURSIVE LeftAppend(_, _, _, _, _, _, _)
LeftVectors(A, norms, ord, k, i, us) ==
    IF i > k THEN us
    ELSE LeftAppend(A, norms, ord, k, i, us,
                    LeftVector(A, Col(A, ord[i]), norms[ord[i]],
                               us \o [l \in 1..(Len(ord) - i) |-> Col(A, ord[i + l])]))
LeftAppend(A, norms, ord, k, i, us, u) ==
    IF u = NotExact THEN NotExact ELSE LeftVectors(A, norms, ord, k, i + 1, Append(us, u))

\* <<U[:, :k], s, V[:, :k]>> of the singular value decomposition
\* A = U diag(s) V^T of a square matrix with mutually orthogonal columns of
\* rational norm
ColSquares(A) == [j \in 1..Cols(A) |-> Dot(Col(A, j), Col(A, j))]
SVDFromLeft(k, norms, ord, us) ==
    IF us = NotExact THEN NotExact
    ELSE <<FromCols(us),
           [i \in 1..Len(norms) |-> norms[ord[i]]],
           FromCols([i \in 1..k |-> UnitVec(Len(norms), ord[i])])>>
SVDFromOrder(A, k, norms, ord) ==
    SVDFromLeft(k, norms, ord, LeftVectors(A, norms, ord, k, 1, <<>>))
SVDFromNorms(A, k, norms) ==
    IF \E j \in 1..Len(norms) : ~IsRational(norms[j]) THEN NotExact
    ELSE SVDFromOrder(A, k, norms, DescendingOrder(norms))
SVDFromSquares(A, k, sq) ==
    IF \E j \in 1..Len(sq) : ~HasSqrt(sq[j]) THEN NotExact
    ELSE SVDFromNorms(A, k, [j \in 1..Len(sq) |-> RSqrt(sq[j])])
SVDOrthogonalCols(A, k) == SVDFromSquares(A, k, ColSquares(A))

\* Ut, St, Vt = np.linalg.svd(A, full_matrices=False), A = Ut diag(St) Vt with
\* St non-negative and descending: <<Ut[:, :k], St, Vt[:k, :]>>
SVDCols(f) == IF f = NotExact THEN NotExact ELSE <<f[1], f[2], T(f[3])>>
SVDRows(f) == IF f = NotExact THEN NotExact ELSE <<f[3], f[2], T(f[1])>>
SVD(A, k) ==
    IF ~IsRationalMat(A) THEN NotExact
    ELSE IF OrthogonalCols(A) THEN SVDCols(SVDOrthogonalCols(A, k))
    ELSE IF OrthogonalCols(T(A)) THEN SVDRows(SVDOrthogonalCols(T(A), k))
    ELSE NotExact

\* the joint sign of a singular vector pair is not fixed by the decomposition:
\* column i of U and row i of Vt negated where sg[i] = -1
SVDSigned(f, sg) ==
    <<[i \in 1..Rows(f[1]) |-> [j \in 1..Cols(f[1]) |-> RMul(Int2R(sg[j]), f[1][i][j])]],
      f[2],
      [i \in 1..Rows(f[3]) |-> [j \in 1..Cols(f[3]) |-> RMul(Int2R(sg[i]), f[3][i][j])]]>>

\* A[:, :k], and s[:k]
FirstCols(A, k) == [i \in 1..Rows(A) |-> SubSeq(A[i], 1, k)]

\* np.sort(s), ascending, and s[::-1]
RECURSIVE Insert(_, _)
Insert(x, s) ==
    IF s = <<>> THEN <<x>>
    ELSE IF RLeq(x, Head(s)) THEN <<x>> \o s
    ELSE <<Head(s)>> \o Insert(x, Tail(s))
RECURSIVE NpSort(_)
NpSort(s) == IF s = <<>> THEN <<>> ELSE Insert(Head(s), NpSort(Tail(s)))
Reversed(s) == [i \in 1..Len(s) |-> s[Len(s) + 1 - i]]

---------------------------------------------------------------------------
(* Stiefel, for k = 1: a point is an n x p matrix *)

\* Stiefel.rand() for k = 1, with X the np.random.randn(n, p) draw
StiefelRand(X) == QR(X)[1]

---------------------------------------------------------------------------
(* FixedRankEmbedded.  A point is the tuple <<U, S, Vt>>.  Other values     *)
(* carry their Python type: an ndarray, a plain tuple of three arrays, or  *)
(* a _FixedRankTangentVector, the namedtuple (Up, M, Vp).                  *)

NdArray(A) == [kind |-> "ndarray", t |-> <<A>>]
Tuple3(A, B, C) == [kind |-> "tuple", t |-> <<A, B, C>>]
\* _FixedRankTangentVector(Up, M, Vp)
TangentVector(Up, M, Vp) == [kind |-> "_FixedRankTangentVector", t |-> <<Up, M, Vp>>]

\* isinstance(Z, (list, tuple)): the namedtuple is a subclass of tuple
IsListOrTuple(Z) == Z.kind \in {"list", "tuple", "_FixedRankTangentVector"}

\* FixedRankEmbedded._apply_ambient(Z, W)
ApplyAmbient(Z, W) ==
    IF IsListOrTuple(Z)
    THEN MatMul(MatMul(MatMul(Z.t[1], Z.t[2]), T(Z.t[3])), W)
    ELSE MatMul(Z.t[1], W)

\* FixedRankEmbedded._apply_ambient_transpose(Z, W)
ApplyAmbientTranspose(Z, W) ==
    IF IsListOrTuple(Z)
    THEN MatMul(MatMul(MatMul(Z.t[3], Z.t[2]), T(Z.t[1])), W)
    ELSE MatMul(T(Z.t[1]), W)

\* proj without the removal of the components along U and V
FRProjNoOrth(X, Z) ==
    TangentVector(ApplyAmbient(Z, T(X[3])),
                  MatMul(T(X[1]), ApplyAmbient(Z, T(X[3]))),
                  ApplyAmbientTranspose(Z, X[1]))

\* FixedRankEmbedded.proj(X, Z)
FRProj(X, Z) ==
    LET ZV == ApplyAmbient(Z, T(X[3]))
        UtZV == MatMul(T(X[1]), ZV)
        ZtU == ApplyAmbientTranspose(Z, X[1])
        Up == MatSub(ZV, MatMul(X[1], UtZV))
        M == UtZV
        Vp == MatSub(ZtU, MatMul(T(X[3]), T(UtZV)))
    IN  TangentVector(Up, M, Vp)

\* the gap denominator without the regularised diagonal
GapDenominatorNoEye(s) ==
    [i \in 1..Len(s) |-> [j \in 1..Len(s) |-> RSub(RSquare(s[j]), RSquare(s[i]))]]

\* x[1][np.newaxis, :] ** 2 - x[1][:, np.newaxis] ** 2 + np.eye(k): the
\* divisor of the gap weights f
GapDenominator(s) ==
    [i \in 1..Len(s) |-> [j \in 1..Len(s) |->
        RAdd(RSub(RSquare(s[j]), RSquare(s[i])), Eye(Len(s))[i][j])]]

\* every divisor FixedRankEmbedded.egrad2rgrad uses, each with its place
Egrad2rgradDivisors(x) ==
    [up |-> x[2], vp |-> x[2], f |-> GapDenominator(x[2])]

\* FixedRankEmbedded.egrad2rgrad(x, egrad), egrad = (dU, dS, dV)
FREgrad2rgrad(x, egrad) ==
    LET k == Len(x[2])
        div == Egrad2rgradDivisors(x)
        utdu == MatMul(T(x[1]), egrad[1])
        uutdu == MatMul(x[1], utdu)
        Up == MatDivCols(MatSub(egrad[1], uutdu), div.up)
        vtdv == MatMul(x[3], T(egrad[3]))
        vvtdv == MatMul(T(x[3]), vtdv)
        Vp == MatDivCols(MatSub(T(egrad[3]), vvtdv), div.vp)
        f == [i \in 1..k |-> [j \in 1..k |-> RDiv(One, div.f[i][j])]]
        M == MatAdd(MatAdd(MatMulCols(MatHad(f, MatSub(utdu, T(utdu))), x[2]),
                           MatHad(MatMulRows(x[2], f), MatSub(vtdv, T(vtdv)))),
                    Diag(egrad[2]))
    IN  TangentVector(Up, M, Vp)

\* FixedRankEmbedded.inner(X, G, H)
FRInner(X, G, H) ==
    RSumSeq([c \in 1..3 |-> Tensordot(G.t[c], H.t[c])])

\* np.spacing(1), the machine epsilon 2^-52: a positive number below the
\* resolution of the sampled values
Spacing1 == Rat(1, 16)

\* retr without the np.spacing(1) added to the singular values
FRRetrWithNoSpacing(X, Z, qu, qv, svd) ==
    <<MatMul(HStack(X[1], qu[1]), FirstCols(svd[1], Len(X[2]))),
      SubSeq(svd[2], 1, Len(X[2])),
      T(MatMul(HStack(T(X[3]), qv[1]), FirstCols(T(svd[3]), Len(X[2]))))>>

\* FixedRankEmbedded.retr(X, Z), for the factorisations qu, qv, svd of the
\* three numpy.linalg calls
FRRetrWith(X, Z, qu, qv, svd) ==
    LET k == Len(X[2])
        Ut == svd[1]
        St == svd[2]
        Vt == T(svd[3])
        U == MatMul(HStack(X[1], qu[1]), FirstCols(Ut, k))
        V == MatMul(HStack(T(X[3]), qv[1]), FirstCols(Vt, k))
        S == [i \in 1..k |-> RAdd(SubSeq(St, 1, k)[i], Spacing1)]
    IN  <<U, S, T(V)>>

\* the matrix T of FixedRankEmbedded.retr
FRRetrT(X, Z, Ru, Rv) ==
    LET k == Len(X[2])
    IN  VStack(HStack(MatAdd(Diag(X[2]), Z.t[2]), T(Rv)),
               HStack(Ru, Zeros(k, k)))

\* the results FixedRankEmbedded.retr(X, Z) can return
FRRetrSVD(X, Z, qu, qv, svd) ==
    IF svd = NotExact THEN {}
    ELSE {FRRetrWith(X, Z, qu, qv, SVDSigned(svd, sg)) : sg \in [1..Len(X[2]) -> {1, -1}]}
FRRetrQR(X, Z, qu, qv) ==
    IF qu = NotExact \/ qv = NotExact THEN {}
    ELSE FRRetrSVD(X, Z, qu, qv, SVD(FRRetrT(X, Z, qu[2], qv[2]), Len(X[2])))
FRRetr(X, Z) == FRRetrQR(X, Z, QR(Z.t[1]), QR(Z.t[3]))

\* FixedRankEmbedded.rand(), with Xu and Xv the draws of the two Stiefel.rand()
\* and r the np.random.rand(k) draw
FRRand(Xu, r, Xv) ==
    LET u == StiefelRand(Xu)
        s == Reversed(NpSort(r))
        vt == T(StiefelRand(Xv))
    IN  <<u, s, vt>>

\* FixedRankEmbedded.norm(X, G)
FRNorm(X, G) == RSqrt(FRInner(X, G, G))

\* FixedRankEmbedded._tangent(X, Z)
FRTangent(X, Z) ==
    LET Up == MatSub(Z.t[1], MatMul(MatMul(X[1], T(X[1])), Z.t[1]))
        Vp == MatSub(Z.t[3], MatMul(MatMul(T(X[3]), X[3]), Z.t[3]))
    IN  TangentVector(Up, Z.t[2], Vp)

\* FixedRankEmbedded.randvec(X), with Up, M, Vp the three np.random.randn draws
FRRandvec(X, Up, M, Vp) ==
    LET Z == FRTangent(X, Tuple3(Up, M, Vp))
        nrm == FRNorm(X, Z)
    IN  TangentVector(MatDivScalar(Z.t[1], nrm), MatDivScalar(Z.t[2], nrm),
                      MatDivScalar(Z.t[3], nrm))

\* FixedRankEmbedded.tangent2ambient(X, Z)
FRTangent2ambient(X, Z) ==
    LET U == HStack(MatAdd(MatMul(X[1], Z.t[2]), Z.t[1]), X[1])
        S == Eye(2 * Len(X[2]))
        V == HStack(T(X[3]), Z.t[3])
    IN  Tuple3(U, S, V)

\* FixedRankEmbedded.transp(X1, X2, G)
FRTransp(X1, X2, G) == FRProj(X2, FRTangent2ambient(X1, G))

\* FixedRankEmbedded.zerovec(X)
FRZerovec(man, X) ==
    TangentVector(Zeros(man._m, man._k), Zeros(man._k, man._k), Zeros(man._n, man._k))

\* _FixedRankTangentVector.__add__, __sub__, __mul__ (= __rmul__), __neg__
TangentAdd(G, H) ==
    TangentVector(MatAdd(G.t[1], H.t[1]), MatAdd(G.t[2], H.t[2]), MatAdd(G.t[3], H.t[3]))
TangentSub(G, H) ==
    TangentVector(MatSub(G.t[1], H.t[1]), MatSub(G.t[2], H.t[2]), MatSub(G.t[3], H.t[3]))
TangentMul(G, other) ==
    TangentVector(MatScale(other, G.t[1]), MatScale(other, G.t[2]), MatScale(other, G.t[3]))
TangentNeg(G) ==
    TangentVector(MatNeg(G.t[1]), MatNeg(G.t[2]), MatNeg(G.t[3]))

---------------------------------------------------------------------------
(* Construction and attribute assignment *)

Params == (-1)..MaxDim

\* values a caller may pass to Product: manifolds, a Product, a non-manifold
ArgPool ==
    {StiefelInit(2, 1, 1).value, StiefelInit(3, 2, 1).value,
     FixedRankInit(3, 2, 1).value,
     ProductInit(<<StiefelInit(2, 1, 1).value>>).value,
     [cls |-> "int"]}

ArgLists == UNION {[1..l -> ArgPool] : l \in 0..MaxFactors}

SetAttrKeys == {"manifolds", "tag"}
SetAttrValues == {<<>>, <<StiefelInit(3, 2, 1).value>>}

Done(c, res) ==
    /\ call' = c
    /\ outcome' = res.raised
    /\ obj' = res.value

NewStiefel ==
    \E n \in Params, p \in Params, k \in Params :
        /\ Done([op |-> "Stiefel", args |-> <<n, p, k>>], StiefelInit(n, p, k))
        /\ given' = <<>>

NewFixedRank ==
    \E m \in Params, n \in Params, k \in Params :
        /\ Done([op |-> "FixedRankEmbedded", args |-> <<m, n, k>>],
                FixedRankInit(m, n, k))
        /\ given' = <<>>

NewProduct ==
    \E ms \in ArgLists :
        /\ Done([op |-> "Product", args |-> <<Len(ms)>>], ProductInit(ms))
        /\ given' = ms

\* product.manifolds = value (or another attribute), from outside the class
SetAttr ==
    /\ obj.cls = "Product"
    /\ \E key \in SetAttrKeys, value \in SetAttrValues :
        /\ Done([op |-> "setattr", args |-> <<key>>], ProductSetAttr(obj, key, value))
        /\ UNCHANGED given


---------------------------------------------------------------------------
(* A FixedRankEmbedded manifold in use: rand(), then operations at the     *)
(* current point and retractions to a next point.                          *)

MaxSteps == 3       \* operations after rand(), transp aside
SRes == 3           \* np.random.rand draws range over {0, 1/SRes, .., (SRes-1)/SRes}

FRShapes == {<<2, 2, 1>>, <<3, 2, 2>>}

NoPoint == <<>>
NoVec == [kind |-> "NoneType", t |-> <<>>]
NoDiv == [up |-> <<>>, vp |-> <<>>, f |-> <<>>]

IntMat(m, n, F(_, _)) == [i \in 1..m |-> [j \in 1..n |-> Int2R(F(i, j))]]

\* np.random.randn(n, p) draws whose QR factorisation is rational: the leading
\* columns of a scaled rotation of the last two coordinates and, for n > p, of
\* the identity
RandnForQR(n, p) ==
    LET id(i, j) == IF i = j THEN 1 ELSE 0
        rot(i, j) == IF n = 1 THEN 5
                     ELSE IF i < n - 1 \/ j < n - 1 THEN 5 * id(i, j)
                     ELSE IF i = j THEN 3
                     ELSE IF i = n THEN 4 ELSE -4
    IN  IF n = p THEN {IntMat(n, p, rot)} ELSE {IntMat(n, p, id), IntMat(n, p, rot)}

\* np.random.rand(k) draws
RandDraws(k) == [1..k -> {Rat(i, SRes) : i \in 0..(SRes - 1)}]

\* np.random.randn(m, n) draws, and dense m x n arrays a caller passes
DenseSamples(m, n) ==
    LET diff(i, j) == i - 2 * j
        corner(i, j) == IF i = m /\ j = 1 THEN 2 ELSE 0
    IN  {IntMat(m, n, diff), IntMat(m, n, corner)}

\* ambient vectors a caller passes to proj: dense arrays and factor triples
AmbientSamples(man) ==
    {NdArray(IntMat(man._m, man._n, LAMBDA i, j : i - 2 * j))}
    \cup {Tuple3(IntMat(man._m, 1, LAMBDA i, j : i), Eye(1), IntMat(man._n, 1, LAMBDA i, j : 3 - j - i))}

\* Euclidean gradients (dU, dS, dV) a caller passes to egrad2rgrad
EgradSamples(man) ==
    {<<dU, [i \in 1..man._k |-> Int2R(i)], IntMat(man._k, man._n, LAMBDA i, j : i - 2 * j)>> :
        dU \in DenseSamples(man._m, man._k)}

\* the three np.random.randn draws of randvec
RandvecDraws(man) ==
    LET diff(i, j) == i - 2 * j
        zero(i, j) == 0
    IN  {Tuple3(IntMat(man._m, man._k, diff), IntMat(man._k, man._k, diff),
                IntMat(man._n, man._k, diff)),
         Tuple3(IntMat(man._m, man._k, zero), IntMat(man._k, man._k, zero),
                IntMat(man._n, man._k, zero))}

Scalars == {Rat(-3, 2)}

\* a + b is representable: the same radical, or a zero or non-finite operand
CanAdd(a, b) == TRUE \in {~IsFinite(a), ~IsFinite(b), IsZero(a), IsZero(b), a.r = b.r}
CanAddVec(G, H) ==
    \A c \in 1..3 : \A i \in 1..Rows(G.t[c]) : \A j \in 1..Cols(G.t[c]) :
        CanAdd(G.t[c][i][j], H.t[c][i][j])

IsFiniteVec(G) == \A c \in 1..3 : IsFiniteMat(G.t[c])

\* some divisor of egrad2rgrad is zero
HasZeroDivisor(div) ==
    \/ \E i \in 1..Len(div.up) : IsZero(div.up[i])
    \/ \E i \in 1..Len(div.vp) : IsZero(div.vp[i])
    \/ \E i \in 1..Len(div.f) : \E j \in 1..Len(div.f) : IsZero(div.f[i][j])

\* a point is held and the session has operations left
FRCanStep == frX # NoPoint /\ frSteps < MaxSteps

\* a tangent-vector operation at frX returned G
FRReturn(op, G, dirty, div) ==
    /\ frG' = G
    /\ frH' = IF frAt = "cur" THEN frG ELSE NoVec
    /\ frDirty' = <<dirty, IF frAt = "cur" THEN frDirty[1] ELSE FALSE>>
    /\ frAt' = "cur"
    /\ frOp' = op
    /\ frDiv' = div
    /\ frSteps' = frSteps + 1
    /\ UNCHANGED <<frMan, frX, frXby, frXprev, frRetrs>>

\* the session's rand() draw
FRDoRand ==
    /\ frX = NoPoint
    /\ \E Xu \in RandnForQR(frMan._m, frMan._k), Xv \in RandnForQR(frMan._n, frMan._k),
       r \in RandDraws(frMan._k) :
        /\ frX' = FRRand(Xu, r, Xv)
        /\ frXby' = "rand"
        /\ frXprev' = NoPoint
        /\ frG' = NoVec /\ frH' = NoVec /\ frAt' = "cur"
        /\ frDirty' = <<FALSE, FALSE>>
        /\ frOp' = "rand"
        /\ frDiv' = NoDiv
        /\ frSteps' = 0
        /\ UNCHANGED <<frMan, frRetrs>>

FRDoProj ==
    /\ FRCanStep
    /\ \E Z \in AmbientSamples(frMan) :
        FRReturn("proj", FRProj(frX, Z), FALSE, NoDiv)

FRDoEgrad2rgrad ==
    /\ FRCanStep
    /\ \E egrad \in EgradSamples(frMan) :
        FRReturn("egrad2rgrad", FREgrad2rgrad(frX, egrad),
                 HasZeroDivisor(Egrad2rgradDivisors(frX)), Egrad2rgradDivisors(frX))

FRDoRandvec ==
    /\ FRCanStep
    /\ \E d \in RandvecDraws(frMan) :
        /\ HasSqrt(FRInner(frX, FRTangent(frX, d), FRTangent(frX, d)))
        /\ FRReturn("randvec", FRRandvec(frX, d.t[1], d.t[2], d.t[3]),
                    IsZero(FRNorm(frX, FRTangent(frX, d))), NoDiv)

FRDoZerovec ==
    /\ FRCanStep
    /\ FRReturn("zerovec", FRZerovec(frMan, frX), FALSE, NoDiv)

\* transp(frXprev, frX, G) of the vector G held from the previous point
FRDoTransp ==
    /\ frG # NoVec /\ frAt = "prev"
    /\ frG' = FRTransp(frXprev, frX, frG)
    /\ frAt' = "cur"
    /\ frOp' = "transp"
    /\ UNCHANGED <<frMan, frX, frXby, frXprev, frH, frDirty, frDiv, frSteps, frRetrs>>

\* the points a caller transports to: U and Vt orthonormal, S positive and
\* descending
TranspTargets(man) ==
    {FRRand(Xu, [i \in 1..man._k |-> Rat(SRes - i, SRes)],
            IntMat(man._n, man._k, LAMBDA i, j : IF i + j = man._n + 1 THEN -2 ELSE 0)) :
        Xu \in RandnForQR(man._m, man._k)}

\* transp(frX, X2, frG) to a point X2 the caller holds
FRDoTranspTo ==
    /\ FRCanStep
    /\ frG # NoVec /\ frAt = "cur"
    /\ \E X2 \in TranspTargets(frMan) :
        /\ X2 # frX
        /\ frG' = FRTransp(frX, X2, frG)
        /\ frX' = X2
        /\ frXprev' = frX
    /\ frXby' = "caller"
    /\ frH' = NoVec
    /\ frDirty' = <<frDirty[1], FALSE>>
    /\ frOp' = "transp"
    /\ frSteps' = frSteps + 1
    /\ UNCHANGED <<frMan, frAt, frDiv, frRetrs>>

\* retr(frX, frG)
FRDoRetr ==
    /\ FRCanStep
    /\ frG # NoVec /\ frAt = "cur"
    /\ \E Y \in FRRetr(frX, frG) :
        /\ frX' = Y
        /\ frXby' = "retr"
        /\ frXprev' = frX
    /\ frAt' = "prev"
    /\ frH' = NoVec
    /\ frDirty' = <<frDirty[1], FALSE>>
    /\ frOp' = "retr"
    /\ frSteps' = frSteps + 1
    /\ frRetrs' = frRetrs + 1
    /\ UNCHANGED <<frMan, frG, frDiv>>

\* the arithmetic of _FixedRankTangentVector on the vectors held at frX
FRArith(op, G, dirty) ==
    /\ frG # NoVec /\ frAt = "cur"
    /\ frG' = G
    /\ frDirty' = <<dirty, frDirty[2]>>
    /\ frOp' = op
    /\ frSteps' = frSteps + 1
    /\ UNCHANGED <<frMan, frX, frXby, frXprev, frAt, frH, frDiv, frRetrs>>

FRDoAdd ==
    /\ FRCanStep
    /\ frG # NoVec /\ frH # NoVec /\ CanAddVec(frG, frH)
    /\ FRArith("add", TangentAdd(frG, frH), frDirty[1] \/ frDirty[2])

FRDoSub ==
    /\ FRCanStep
    /\ frG # NoVec /\ frH # NoVec /\ CanAddVec(frG, frH)
    /\ FRArith("sub", TangentSub(frG, frH), frDirty[1] \/ frDirty[2])

FRDoMul ==
    /\ FRCanStep
    /\ frG # NoVec
    /\ \E c \in Scalars : FRArith("mul", TangentMul(frG, c), frDirty[1])

FRDoNeg ==
    /\ FRCanStep
    /\ frG # NoVec
    /\ FRArith("neg", TangentNeg(frG), frDirty[1])

---------------------------------------------------------------------------
(* Stiefel for k = 1, and Product over Stiefel and FixedRankEmbedded        *)
(* factors.  An array or list passed to or returned by proj is a record of  *)
(* its class and its items; a point of a Stiefel is its matrix, a point of  *)
(* a Product the sequence of the factors' points.                           *)

\* pymanopt.tools.multi.multisym for one matrix: (A + A^T) / 2
MultiSym(A) == MatScale(Rat(1, 2), MatAdd(A, T(A)))

\* Stiefel.proj(X, U)
StiefelProj(X, U) ==
    NdArray(MatSub(U.t[1], MatMul(X, MultiSym(MatMul(T(X), U.t[1])))))

\* Stiefel.inner(X, G, H)
StiefelInner(X, G, H) == Tensordot(G.t[1], H.t[1])

\* Stiefel.norm(X, G): np.linalg.norm(G), the Frobenius norm
StiefelNorm(X, G) == RSqrt(Tensordot(G.t[1], G.t[1]))

\* Stiefel.typicaldist
StiefelTypicaldist(self) == RSqrt(Int2R(self._p * self._k))

\* FixedRankEmbedded.typicaldist
FRTypicaldist(self) == Int2R(self._dimension)

PyList(items) == [kind |-> "list", t |-> items]
\* Product._TangentVector(items)
ProductTangentVector(items) == [kind |-> "_TangentVector", t |-> items]

\* man.proj, man.inner, man.norm, man.typicaldist of a factor man
FactorProj(man, X, U) ==
    IF man.cls = "Stiefel" THEN StiefelProj(X, U) ELSE FRProj(X, U)
FactorInner(man, X, G, H) ==
    IF man.cls = "Stiefel" THEN StiefelInner(X, G, H) ELSE FRInner(X, G, H)
FactorNorm(man, X, G) ==
    IF man.cls = "Stiefel" THEN StiefelNorm(X, G) ELSE FRNorm(X, G)
FactorTypicaldist(man) ==
    IF man.cls = "Stiefel" THEN StiefelTypicaldist(man) ELSE FRTypicaldist(man)

\* Product.proj(X, U)
ProductProj(self, X, U) ==
    ProductTangentVector([k \in 1..Len(Factors(self)) |->
        FactorProj(Factors(self)[k], X[k], U.t[k])])

\* the sum of the squares of the factor inner products
ProductInnerSumSquares(self, X, G, H) ==
    RSumSeq([k \in 1..Len(Factors(self)) |->
        RSquare(FactorInner(Factors(self)[k], X[k], G.t[k], H.t[k]))])

\* Product.inner(X, G, H)
ProductInner(self, X, G, H) ==
    RSumSeq([k \in 1..Len(Factors(self)) |->
        FactorInner(Factors(self)[k], X[k], G.t[k], H.t[k])])

\* Product.norm(X, G)
ProductNorm(self, X, G) == RSqrt(ProductInner(self, X, G, G))


\* Product.typicaldist
ProductTypicaldist(self) ==
    RSqrt(RSumSeq([k \in 1..Len(Factors(self)) |->
        RSquare(FactorTypicaldist(Factors(self)[k]))]))

\* the plain sum of the factors' distances
ProductDistSum(self, dists) == RSumSeq([k \in 1..Len(Factors(self)) |-> dists[k]])

\* Product.dist(X, Y), for the values dists[k] of man.dist(X[k], Y[k])
ProductDist(self, dists) ==
    RSqrt(RSumSeq([k \in 1..Len(Factors(self)) |-> RSquare(dists[k])]))

\* man.proj, man.inner, man.norm, man.typicaldist of any manifold man
ManProj(man, X, U) ==
    IF man.cls = "Product" THEN ProductProj(man, X, U) ELSE FactorProj(man, X, U)
ManInner(man, X, G, H) ==
    IF man.cls = "Product" THEN ProductInner(man, X, G, H) ELSE FactorInner(man, X, G, H)
ManNorm(man, X, G) ==
    IF man.cls = "Product" THEN ProductNorm(man, X, G) ELSE FactorNorm(man, X, G)
ManTypicaldist(man) ==
    IF man.cls = "Product" THEN ProductTypicaldist(man) ELSE FactorTypicaldist(man)

---------------------------------------------------------------------------
(* A manifold in use through the common interface: rand, proj and the       *)
(* metric queries, on a Stiefel, a FixedRankEmbedded or a Product           *)

MnManifolds ==
    {StiefelInit(3, 2, 1).value,
     FixedRankInit(2, 2, 1).value,
     ProductInit(<<StiefelInit(3, 2, 1).value, StiefelInit(2, 1, 1).value>>).value,
     ProductInit(<<StiefelInit(2, 1, 1).value, FixedRankInit(2, 2, 1).value>>).value}

NoOut == [op |-> "", value |-> Zero, parts |-> <<>>]

\* one draw of np.random.rand(k): proj and the metric do not read S
MnRandDraws(k) == {r \in RandDraws(k) : \A i \in 1..k : r[i] = Rat(1, SRes)}

\* the points rand() returns
FactorPoints(man) ==
    IF man.cls = "Stiefel"
    THEN {StiefelRand(Xd) : Xd \in RandnForQR(man._n, man._p)}
    ELSE {FRRand(Xu, r, Xv) : Xu \in RandnForQR(man._m, man._k),
                              Xv \in RandnForQR(man._n, man._k), r \in MnRandDraws(man._k)}
RECURSIVE PointsUpTo(_, _)
PointsUpTo(self, k) ==
    IF k = 0 THEN {<<>>}
    ELSE {Append(X, x) : X \in PointsUpTo(self, k - 1), x \in FactorPoints(Factors(self)[k])}
ProductPoints(self) == PointsUpTo(self, Len(Factors(self)))
ManPoints(man) == IF man.cls = "Product" THEN ProductPoints(man) ELSE FactorPoints(man)

\* the ambient vectors a caller passes to proj
FactorAmbients(man) ==
    IF man.cls = "Stiefel" THEN {NdArray(A) : A \in DenseSamples(man._n, man._p)}
    ELSE AmbientSamples(man)
RECURSIVE AmbientsUpTo(_, _)
AmbientsUpTo(self, k) ==
    IF k = 0 THEN {<<>>}
    ELSE {Append(U, u) : U \in AmbientsUpTo(self, k - 1),
                         u \in FactorAmbients(Factors(self)[k])}
ProductAmbients(self) == {PyList(U) : U \in AmbientsUpTo(self, Len(Factors(self)))}
ManAmbients(man) == IF man.cls = "Product" THEN ProductAmbients(man) ELSE FactorAmbients(man)

\* the values man.dist(X[k], Y[k]) of the factors
DistValues == {Int2R(3), Int2R(4)}

\* man.rand()
MNRand ==
    /\ mnX = NoPoint
    /\ mnX' \in ManPoints(mnMan)
    /\ UNCHANGED <<mnMan, mnG, mnH, mnAgain, mnOut>>

\* G = man.proj(X, Z) for an ambient Z
MNProj ==
    /\ mnX # NoPoint
    /\ \E Z \in ManAmbients(mnMan) : mnG' = ManProj(mnMan, mnX, Z)
    /\ mnH' = IF mnAgain THEN mnH ELSE mnG
    /\ mnAgain' = FALSE
    /\ mnOut' = NoOut
    /\ UNCHANGED <<mnMan, mnX>>

\* man.proj(X, G) for the G a proj returned
MNProjAgain ==
    /\ mnX # NoPoint /\ mnG # NoVec /\ ~mnAgain
    /\ mnG' = ManProj(mnMan, mnX, mnG)
    /\ mnH' = mnG
    /\ mnAgain' = TRUE
    /\ mnOut' = NoOut
    /\ UNCHANGED <<mnMan, mnX>>

\* the tangent vectors G and H of two proj calls are held
MNHasPair == mnX # NoPoint /\ mnG # NoVec /\ mnH # NoVec /\ ~mnAgain

\* the factors' values of a query, for a Product
MNParts(F(_)) ==
    IF mnMan.cls = "Product" THEN [k \in 1..Len(Factors(mnMan)) |-> F(k)] ELSE <<>>

\* man.inner(X, G, H)
MNInner ==
    /\ MNHasPair
    /\ mnOut' = [op |-> "inner", value |-> ManInner(mnMan, mnX, mnG, mnH),
                 parts |-> MNParts(LAMBDA k :
                     FactorInner(Factors(mnMan)[k], mnX[k], mnG.t[k], mnH.t[k]))]
    /\ UNCHANGED <<mnMan, mnX, mnG, mnH, mnAgain>>

\* man.norm(X, G)
MNNorm ==
    /\ MNHasPair
    /\ HasSqrt(ManInner(mnMan, mnX, mnG, mnG))
    /\ mnMan.cls = "Product" =>
          \A k \in 1..Len(Factors(mnMan)) :
              HasSqrt(FactorInner(Factors(mnMan)[k], mnX[k], mnG.t[k], mnG.t[k]))
    /\ mnOut' = [op |-> "norm", value |-> ManNorm(mnMan, mnX, mnG),
                 parts |-> MNParts(LAMBDA k :
                     FactorNorm(Factors(mnMan)[k], mnX[k], mnG.t[k]))]
    /\ UNCHANGED <<mnMan, mnX, mnG, mnH, mnAgain>>

\* man.typicaldist
MNTypicaldist ==
    /\ mnOut' = [op |-> "typicaldist", value |-> ManTypicaldist(mnMan),
                 parts |-> MNParts(LAMBDA k : FactorTypicaldist(Factors(mnMan)[k]))]
    /\ UNCHANGED <<mnMan, mnX, mnG, mnH, mnAgain>>

\* Product.dist(X, Y), for the values ds[k] the factors' dist returns
MNDist ==
    /\ mnMan.cls = "Product" /\ mnX # NoPoint
    /\ \E ds \in [1..Len(Factors(mnMan)) -> DistValues] :
        mnOut' = [op |-> "dist", value |-> ProductDist(mnMan, ds), parts |-> ds]
    /\ UNCHANGED <<mnMan, mnX, mnG, mnH, mnAgain>>

---------------------------------------------------------------------------
(* Product over arbitrary factors.  What a factor's operation returns is    *)
(* left uninterpreted: it is the term naming the operation, the factor and  *)
(* the arguments.  The Product's operations of product.py build their       *)
(* results from these terms.                                                *)

MaxCalls == 5

\* man.op(*args) of a factor man
FactorCall(op, man, args) == [op |-> op, man |-> man, args |-> args, c |-> Zero]

\* the k-th item of a list a caller passes
CallerItem(name, k) == [op |-> name, man |-> NoObj, args |-> <<>>, c |-> Int2R(k)]

\* v + w, v - w, c * v and -v on the values of the factors
ItemAdd(v, w) == [op |-> "+", man |-> NoObj, args |-> <<v, w>>, c |-> Zero]
ItemSub(v, w) == [op |-> "-", man |-> NoObj, args |-> <<v, w>>, c |-> Zero]
ItemMul(c, v) == [op |-> "*", man |-> NoObj, args |-> <<v>>, c |-> c]
ItemNeg(v) == [op |-> "neg", man |-> NoObj, args |-> <<v>>, c |-> Zero]

\* Product._TangentVector.__add__, __sub__, __mul__ / __rmul__, __neg__
VectorAdd(self, other) ==
    ProductTangentVector([k \in 1..Len(self.t) |-> ItemAdd(self.t[k], other.t[k])])
VectorSub(self, other) ==
    ProductTangentVector([k \in 1..Len(self.t) |-> ItemSub(self.t[k], other.t[k])])
VectorMul(self, other) ==
    ProductTangentVector([k \in 1..Len(self.t) |-> ItemMul(other, self.t[k])])
VectorNeg(self) ==
    ProductTangentVector([k \in 1..Len(self.t) |-> ItemNeg(self.t[k])])

\* Product.proj(X, U)
DelegProj(self, X, U) ==
    ProductTangentVector([k \in 1..Len(self._manifolds) |->
        FactorCall("proj", self._manifolds[k], <<X.t[k], U.t[k]>>)])

\* Product.egrad2rgrad(X, U)
DelegEgrad2rgrad(self, X, U) ==
    ProductTangentVector([k \in 1..Len(self._manifolds) |->
        FactorCall("egrad2rgrad", self._manifolds[k], <<X.t[k], U.t[k]>>)])

\* Product.ehess2rhess(X, egrad, ehess, H)
DelegEhess2rhess(self, X, egrad, ehess, H) ==
    ProductTangentVector([k \in 1..Len(self._manifolds) |->
        FactorCall("ehess2rhess", self._manifolds[k],
                   <<X.t[k], egrad.t[k], ehess.t[k], H.t[k]>>)])

\* Product.exp(X, U)
DelegExp(self, X, U) ==
    PyList([k \in 1..Len(self._manifolds) |->
        FactorCall("exp", self._manifolds[k], <<X.t[k], U.t[k]>>)])

\* Product.retr(X, U)
DelegRetr(self, X, U) ==
    PyList([k \in 1..Len(self._manifolds) |->
        FactorCall("retr", self._manifolds[k], <<X.t[k], U.t[k]>>)])

\* Product.log(X, U)
DelegLog(self, X, U) ==
    ProductTangentVector([k \in 1..Len(self._manifolds) |->
        FactorCall("log", self._manifolds[k], <<X.t[k], U.t[k]>>)])

\* Product.rand()
DelegRand(self) ==
    PyList([k \in 1..Len(self._manifolds) |->
        FactorCall("rand", self._manifolds[k], <<>>)])

\* len(self._manifolds) ** (-1/2)
RandvecScale(self) == RInv(RSqrt(Int2R(Len(self._manifolds))))

\* Product.randvec(X)
DelegRandvec(self, X) ==
    ProductTangentVector([k \in 1..Len(self._manifolds) |->
        ItemMul(RandvecScale(self), FactorCall("randvec", self._manifolds[k], <<X.t[k]>>))])

\* transp with the factors taken in reverse order
DelegTranspReversed(self, X1, X2, G) ==
    ProductTangentVector([k \in 1..Len(self._manifolds) |->
        FactorCall("transp", self._manifolds[Len(self._manifolds) + 1 - k],
                   <<X1.t[Len(self._manifolds) + 1 - k], X2.t[Len(self._manifolds) + 1 - k],
                     G.t[Len(self._manifolds) + 1 - k]>>)])

\* Product.transp(X1, X2, G)
DelegTransp(self, X1, X2, G) ==
    ProductTangentVector([k \in 1..Len(self._manifolds) |->
        FactorCall("transp", self._manifolds[k], <<X1.t[k], X2.t[k], G.t[k]>>)])

\* Product.pairmean(X, Y)
DelegPairmean(self, X, Y) ==
    PyList([k \in 1..Len(self._manifolds) |->
        FactorCall("pairmean", self._manifolds[k], <<X.t[k], Y.t[k]>>)])

\* Product.zerovec(X)
DelegZerovec(self, X) ==
    ProductTangentVector([k \in 1..Len(self._manifolds) |->
        FactorCall("zerovec", self._manifolds[k], <<X.t[k]>>)])

\* the Products in use: one, two and three factors, all different
DgManifolds ==
    {ProductInit(<<StiefelInit(2, 1, 1).value>>).value,
     ProductInit(<<StiefelInit(3, 2, 1).value, FixedRankInit(2, 2, 1).value>>).value,
     ProductInit(<<StiefelInit(2, 1, 1).value, FixedRankInit(2, 2, 1).value,
                   StiefelInit(3, 2, 1).value>>).value}

\* a list of one item per factor that a caller passes
CallerList(name) ==
    PyList([k \in 1..Len(dgMan._manifolds) |-> CallerItem(name, k)])

NoCall == [op |-> "", args |-> <<>>, c |-> Zero]

DgCanCall == dgSteps < MaxCalls

\* the call op(*args) returned the point res
DgReturnPoint(op, args, res) ==
    /\ dgCall' = [op |-> op, args |-> args, c |-> Zero]
    /\ dgRes' = res
    /\ dgX' = res
    /\ dgY' = dgX
    /\ dgSteps' = dgSteps + 1
    /\ UNCHANGED <<dgMan, dgG, dgH>>

\* the call op(*args), with the scalar c, returned the tangent vector res
DgReturnVector(op, args, c, res) ==
    /\ dgCall' = [op |-> op, args |-> args, c |-> c]
    /\ dgRes' = res
    /\ dgG' = res
    /\ dgH' = dgG
    /\ dgSteps' = dgSteps + 1
    /\ UNCHANGED <<dgMan, dgX, dgY>>

DoRand ==
    /\ DgCanCall
    /\ DgReturnPoint("rand", <<>>, DelegRand(dgMan))

DoProj ==
    /\ DgCanCall /\ dgX # NoVec
    /\ DgReturnVector("proj", <<dgX, CallerList("U")>>, Zero,
                      DelegProj(dgMan, dgX, CallerList("U")))

DoEgrad2rgrad ==
    /\ DgCanCall /\ dgX # NoVec
    /\ DgReturnVector("egrad2rgrad", <<dgX, CallerList("egrad")>>, Zero,
                      DelegEgrad2rgrad(dgMan, dgX, CallerList("egrad")))

DoEhess2rhess ==
    /\ DgCanCall /\ dgX # NoVec /\ dgG # NoVec
    /\ DgReturnVector("ehess2rhess", <<dgX, CallerList("egrad"), CallerList("ehess"), dgG>>, Zero,
                      DelegEhess2rhess(dgMan, dgX, CallerList("egrad"), CallerList("ehess"), dgG))

DoExp ==
    /\ DgCanCall /\ dgX # NoVec /\ dgG # NoVec
    /\ DgReturnPoint("exp", <<dgX, dgG>>, DelegExp(dgMan, dgX, dgG))

DoRetr ==
    /\ DgCanCall /\ dgX # NoVec /\ dgG # NoVec
    /\ DgReturnPoint("retr", <<dgX, dgG>>, DelegRetr(dgMan, dgX, dgG))

DoLog ==
    /\ DgCanCall /\ dgX # NoVec /\ dgY # NoVec
    /\ DgReturnVector("log", <<dgX, dgY>>, Zero, DelegLog(dgMan, dgX, dgY))

DoRandvec ==
    /\ DgCanCall /\ dgX # NoVec
    /\ DgReturnVector("randvec", <<dgX>>, Zero, DelegRandvec(dgMan, dgX))

DoTransp ==
    /\ DgCanCall /\ dgX # NoVec /\ dgY # NoVec /\ dgG # NoVec
    /\ DgReturnVector("transp", <<dgY, dgX, dgG>>, Zero, DelegTransp(dgMan, dgY, dgX, dgG))

DoPairmean ==
    /\ DgCanCall /\ dgX # NoVec /\ dgY # NoVec
    /\ DgReturnPoint("pairmean", <<dgX, dgY>>, DelegPairmean(dgMan, dgX, dgY))

DoZerovec ==
    /\ DgCanCall /\ dgX # NoVec
    /\ DgReturnVector("zerovec", <<dgX>>, Zero, DelegZerovec(dgMan, dgX))

\* G + H; the assert on the lengths holds for the vectors of one Product
DoAdd ==
    /\ DgCanCall /\ dgG # NoVec /\ dgH # NoVec
    /\ Len(dgG.t) = Len(dgH.t)
    /\ DgReturnVector("__add__", <<dgG, dgH>>, Zero, VectorAdd(dgG, dgH))

DoSub ==
    /\ DgCanCall /\ dgG # NoVec /\ dgH # NoVec
    /\ Len(dgG.t) = Len(dgH.t)
    /\ DgReturnVector("__sub__", <<dgG, dgH>>, Zero, VectorSub(dgG, dgH))

DoMul ==
    /\ DgCanCall /\ dgG # NoVec
    /\ \E c \in Scalars : DgReturnVector("__mul__", <<dgG>>, c, VectorMul(dgG, c))

DoNeg ==
    /\ DgCanCall /\ dgG # NoVec
    /\ DgReturnVector("__neg__", <<dgG>>, Zero, VectorNeg(dgG))

---------------------------------------------------------------------------
(* A Stiefel manifold in use: rand, proj, randvec, zerovec and retr.  For   *)
(* k = 1 a point is an n x p matrix, for k > 1 a sequence of k of them.     *)

MaxStCalls == 3

\* np.sign
NpSign(a) == IF IsNaN(a) THEN NaN ELSE Int2R(Sign(a.n))

\* np.diag(r) of a square r
NpDiag(R) == [i \in 1..Cols(R) |-> R[i][i]]

\* np.sign(d), without the second sign and the 0.5
SignOnly(d) == [i \in 1..Len(d) |-> NpSign(d[i])]

\* np.sign(np.sign(d) + 0.5)
SignCorrection(d) == [i \in 1..Len(d) |-> NpSign(RAdd(NpSign(d[i]), Rat(1, 2)))]

\* the signs of a QR factorisation are not fixed by A = QR: column j of Q and
\* row j of R negated where sg[j] = -1
QRSigned(f, sg) ==
    <<[i \in 1..Rows(f[1]) |-> [j \in 1..Cols(f[1]) |-> RMul(Int2R(sg[j]), f[1][i][j])]],
      [i \in 1..Rows(f[2]) |-> [j \in 1..Cols(f[2]) |-> RMul(Int2R(sg[i]), f[2][i][j])]]>>

\* a 1 x 1 array that is not finite is returned as R, with Q = [[1]]
QROrNonFinite(A) ==
    IF Rows(A) = 1 /\ Cols(A) = 1 /\ ~IsFinite(A[1][1]) THEN <<Eye(1), A>> ELSE QR(A)

\* the pairs q, r that np.linalg.qr(A) can return
QRSignedFrom(f, p) ==
    IF f = NotExact THEN {} ELSE {QRSigned(f, sg) : sg \in [1..p -> {1, -1}]}
QROutcomes(A) == QRSignedFrom(QROrNonFinite(A), Cols(A))

\* q @ np.diag(np.sign(np.sign(np.diag(r)) + 0.5))
RetrBlock(f) == MatMul(f[1], Diag(SignCorrection(NpDiag(f[2]))))

\* X + G, as the sequence of its blocks
RetrSum(self, X, G) ==
    IF self._k = 1 THEN <<MatAdd(X, G.t[1])>>
    ELSE [i \in 1..self._k |-> MatAdd(X[i], G.t[1][i])]

\* Stiefel.retr(X, G), for the factorisations qrs[i] of the blocks of X + G
StiefelRetr(self, qrs) ==
    IF self._k = 1 THEN RetrBlock(qrs[1])
    ELSE [i \in 1..self._k |-> RetrBlock(qrs[i])]

\* Stiefel.rand(), for the draws Xd[i] of np.random.randn(n, p)
StiefelRandBlocks(self, Xd) ==
    IF self._k = 1 THEN StiefelRand(Xd[1])
    ELSE [i \in 1..self._k |-> QR(Xd[i])[1]]

\* Stiefel.proj(X, U) with multiprod, multitransp and multisym working on
\* each of the k blocks
StiefelProjBlocks(self, X, U) ==
    IF self._k = 1 THEN StiefelProj(X, U)
    ELSE NdArray([i \in 1..self._k |-> StiefelProj(X[i], NdArray(U.t[1][i])).t[1]])

\* the sum of the squares of the entries of U
SquareSum(self, U) ==
    IF self._k = 1 THEN Tensordot(U.t[1], U.t[1])
    ELSE RSumSeq([i \in 1..self._k |-> Tensordot(U.t[1][i], U.t[1][i])])

\* U / np.linalg.norm(U) for the projected draw U
StiefelRandvecFrom(self, U, nrm) ==
    IF self._k = 1 THEN NdArray(MatDivScalar(U.t[1], nrm))
    ELSE NdArray([i \in 1..self._k |-> MatDivScalar(U.t[1][i], nrm)])

\* Stiefel.randvec(X), for the draw U of np.random.randn(*np.shape(X))
StiefelRandvec(self, X, U) ==
    StiefelRandvecFrom(self, StiefelProjBlocks(self, X, U),
                       RSqrt(SquareSum(self, StiefelProjBlocks(self, X, U))))

\* Stiefel.zerovec(X)
StiefelZerovec(self, X) ==
    IF self._k = 1 THEN NdArray(Zeros(self._n, self._p))
    ELSE NdArray([i \in 1..self._k |-> Zeros(self._n, self._p)])

StManifolds ==
    {StiefelInit(1, 1, 1).value, StiefelInit(2, 1, 1).value,
     StiefelInit(3, 2, 1).value, StiefelInit(2, 1, 2).value}

\* sequences of one element of D per block
RECURSIVE BlockSeqs(_, _)
BlockSeqs(D, k) ==
    IF k = 0 THEN {<<>>} ELSE {Append(b, d) : b \in BlockSeqs(D, k - 1), d \in D}

\* np.random.randn(n, p) draws, and dense arrays a caller passes
StiefelDraws(n, p) ==
    DenseSamples(n, p) \cup {MatScale(Rat(2, 3), A) : A \in DenseSamples(n, p)}

\* arrays of the shape of a point
StiefelArrays(self) ==
    IF self._k = 1 THEN {NdArray(A) : A \in StiefelDraws(self._n, self._p)}
    ELSE {NdArray(B) : B \in BlockSeqs(StiefelDraws(self._n, self._p), self._k)}

\* -X
NegPoint(self, X) ==
    IF self._k = 1 THEN NdArray(MatNeg(X))
    ELSE NdArray([i \in 1..self._k |-> MatNeg(X[i])])

\* the second argument of retr: the tangent vector held, or -X
RetrArgs == (IF stG = NoVec THEN {} ELSE {stG}) \cup {NegPoint(stMan, stX)}

\* the entries of X + G are representable
CanAddMat(A, B) ==
    \A i \in 1..Rows(A) : \A j \in 1..Cols(A) : CanAdd(A[i][j], B[i][j])
CanRetr(self, X, G) ==
    IF self._k = 1 THEN CanAddMat(X, G.t[1])
    ELSE \A i \in 1..self._k : CanAddMat(X[i], G.t[1][i])

\* the factorisations of the blocks, one outcome for each
RECURSIVE QRSeqs(_, _)
QRSeqs(blocks, i) ==
    IF i = 0 THEN {<<>>}
    ELSE {Append(fs, f) : fs \in QRSeqs(blocks, i - 1), f \in QROutcomes(blocks[i])}

STCanCall == stSteps < MaxStCalls

STRand ==
    /\ STCanCall /\ stX = NoPoint
    /\ \E Xd \in BlockSeqs(RandnForQR(stMan._n, stMan._p), stMan._k) :
        stX' = StiefelRandBlocks(stMan, Xd)
    /\ stOp' = "rand" /\ stSteps' = stSteps + 1
    /\ UNCHANGED <<stMan, stG, stDiag, stSign>>

STProj ==
    /\ STCanCall /\ stX # NoPoint
    /\ \E U \in StiefelArrays(stMan) : stG' = StiefelProjBlocks(stMan, stX, U)
    /\ stOp' = "proj" /\ stSteps' = stSteps + 1
    /\ UNCHANGED <<stMan, stX, stDiag, stSign>>

STRandvec ==
    /\ STCanCall /\ stX # NoPoint
    /\ \E U \in StiefelArrays(stMan) :
        /\ HasSqrt(SquareSum(stMan, StiefelProjBlocks(stMan, stX, U)))
        /\ stG' = StiefelRandvec(stMan, stX, U)
    /\ stOp' = "randvec" /\ stSteps' = stSteps + 1
    /\ UNCHANGED <<stMan, stX, stDiag, stSign>>

STZerovec ==
    /\ STCanCall /\ stX # NoPoint
    /\ stG' = StiefelZerovec(stMan, stX)
    /\ stOp' = "zerovec" /\ stSteps' = stSteps + 1
    /\ UNCHANGED <<stMan, stX, stDiag, stSign>>

STRetr ==
    /\ STCanCall /\ stX # NoPoint
    /\ \E G \in RetrArgs :
        \E qrs \in (IF CanRetr(stMan, stX, G)
                    THEN QRSeqs(RetrSum(stMan, stX, G), stMan._k) ELSE {}) :
            /\ stX' = StiefelRetr(stMan, qrs)
            /\ stDiag' = [i \in 1..Len(qrs) |-> NpDiag(qrs[i][2])]
            /\ stSign' = [i \in 1..Len(qrs) |-> SignCorrection(NpDiag(qrs[i][2]))]
    /\ stOp' = "retr" /\ stSteps' = stSteps + 1
    /\ UNCHANGED <<stMan, stG>>

---------------------------------------------------------------------------
(* Specifications *)

ctorVars == <<obj, call, outcome, given>>
frVars == <<frMan, frX, frXby, frXprev, frG, frAt, frH, frDirty, frOp, frDiv, frSteps, frRetrs>>
mnVars == <<mnMan, mnX, mnG, mnH, mnAgain, mnOut>>
dgVars == <<dgMan, dgX, dgY, dgG, dgH, dgCall, dgRes, dgSteps>>
stVars == <<stMan, stX, stG, stDiag, stSign, stOp, stSteps>>
vars == <<ctorVars, frVars, mnVars, dgVars, stVars>>
ctorRest == <<frVars, mnVars, dgVars, stVars>>
frRest == <<ctorVars, mnVars, dgVars, stVars>>
mnRest == <<ctorVars, frVars, dgVars, stVars>>
dgRest == <<ctorVars, frVars, mnVars, stVars>>
stRest == <<ctorVars, frVars, mnVars, dgVars>>

CtorIdle ==
    /\ obj = NoObj
    /\ call = [op |-> "", args |-> <<>>]
    /\ outcome = ""
    /\ given = <<>>

FRIdle ==
    /\ frMan = NoObj /\ frX = NoPoint /\ frXby = "" /\ frXprev = NoPoint
    /\ frG = NoVec /\ frAt = "cur" /\ frH = NoVec /\ frDirty = <<FALSE, FALSE>>
    /\ frOp = "" /\ frDiv = NoDiv /\ frSteps = 0 /\ frRetrs = 0

MNIdle ==
    /\ mnMan = NoObj /\ mnX = NoPoint /\ mnG = NoVec /\ mnH = NoVec
    /\ mnAgain = FALSE /\ mnOut = NoOut

DGIdle ==
    /\ dgMan = NoObj /\ dgX = NoVec /\ dgY = NoVec /\ dgG = NoVec /\ dgH = NoVec
    /\ dgCall = NoCall /\ dgRes = NoVec /\ dgSteps = 0

STIdle ==
    /\ stMan = NoObj /\ stX = NoPoint /\ stG = NoVec
    /\ stDiag = <<>> /\ stSign = <<>> /\ stOp = "" /\ stSteps = 0

\* construction and attribute assignment
Init == CtorIdle /\ FRIdle /\ MNIdle /\ DGIdle /\ STIdle

Next ==
    \/ NewStiefel /\ UNCHANGED ctorRest
    \/ NewFixedRank /\ UNCHANGED ctorRest
    \/ NewProduct /\ UNCHANGED ctorRest
    \/ SetAttr /\ UNCHANGED ctorRest

Spec == Init /\ [][Next]_vars

\* a FixedRankEmbedded manifold in use
InitFR ==
    /\ CtorIdle /\ MNIdle /\ DGIdle /\ STIdle
    /\ frMan \in {FixedRankInit(sh[1], sh[2], sh[3]).value : sh \in FRShapes}
    /\ frX = NoPoint /\ frXby = "" /\ frXprev = NoPoint
    /\ frG = NoVec /\ frAt = "cur" /\ frH = NoVec /\ frDirty = <<FALSE, FALSE>>
    /\ frOp = "" /\ frDiv = NoDiv /\ frSteps = 0 /\ frRetrs = 0

NextFR ==
    \/ FRDoRand /\ UNCHANGED frRest
    \/ FRDoProj /\ UNCHANGED frRest
    \/ FRDoEgrad2rgrad /\ UNCHANGED frRest
    \/ FRDoRandvec /\ UNCHANGED frRest
    \/ FRDoZerovec /\ UNCHANGED frRest
    \/ FRDoTransp /\ UNCHANGED frRest
    \/ FRDoTranspTo /\ UNCHANGED frRest
    \/ FRDoRetr /\ UNCHANGED frRest
    \/ FRDoAdd /\ UNCHANGED frRest
    \/ FRDoSub /\ UNCHANGED frRest
    \/ FRDoMul /\ UNCHANGED frRest
    \/ FRDoNeg /\ UNCHANGED frRest

SpecFR == InitFR /\ [][NextFR]_vars

\* a manifold in use through the common interface
InitMN ==
    /\ CtorIdle /\ FRIdle /\ DGIdle /\ STIdle
    /\ mnMan \in MnManifolds
    /\ mnX = NoPoint /\ mnG = NoVec /\ mnH = NoVec
    /\ mnAgain = FALSE /\ mnOut = NoOut

NextMN ==
    \/ MNRand /\ UNCHANGED mnRest
    \/ MNProj /\ UNCHANGED mnRest
    \/ MNProjAgain /\ UNCHANGED mnRest
    \/ MNInner /\ UNCHANGED mnRest
    \/ MNNorm /\ UNCHANGED mnRest
    \/ MNTypicaldist /\ UNCHANGED mnRest
    \/ MNDist /\ UNCHANGED mnRest

SpecMN == InitMN /\ [][NextMN]_vars

\* a Product delegating to its factors
InitDeleg ==
    /\ CtorIdle /\ FRIdle /\ MNIdle /\ STIdle
    /\ dgMan \in DgManifolds
    /\ dgX = NoVec /\ dgY = NoVec /\ dgG = NoVec /\ dgH = NoVec
    /\ dgCall = NoCall /\ dgRes = NoVec /\ dgSteps = 0

NextDeleg ==
    \/ DoRand /\ UNCHANGED dgRest
    \/ DoProj /\ UNCHANGED dgRest
    \/ DoEgrad2rgrad /\ UNCHANGED dgRest
    \/ DoEhess2rhess /\ UNCHANGED dgRest
    \/ DoExp /\ UNCHANGED dgRest
    \/ DoRetr /\ UNCHANGED dgRest
    \/ DoLog /\ UNCHANGED dgRest
    \/ DoRandvec /\ UNCHANGED dgRest
    \/ DoTransp /\ UNCHANGED dgRest
    \/ DoPairmean /\ UNCHANGED dgRest
    \/ DoZerovec /\ UNCHANGED dgRest
    \/ DoAdd /\ UNCHANGED dgRest
    \/ DoSub /\ UNCHANGED dgRest
    \/ DoMul /\ UNCHANGED dgRest
    \/ DoNeg /\ UNCHANGED dgRest

SpecDeleg == InitDeleg /\ [][NextDeleg]_vars

\* a Stiefel manifold in use
InitSt ==
    /\ CtorIdle /\ FRIdle /\ MNIdle /\ DGIdle
    /\ stMan \in StManifolds
    /\ stX = NoPoint /\ stG = NoVec
    /\ stDiag = <<>> /\ stSign = <<>> /\ stOp = "" /\ stSteps = 0

NextSt ==
    \/ STRand /\ UNCHANGED stRest
    \/ STProj /\ UNCHANGED stRest
    \/ STRandvec /\ UNCHANGED stRest
    \/ STZerovec /\ UNCHANGED stRest
    \/ STRetr /\ UNCHANGED stRest

SpecSt == InitSt /\ [][NextSt]_vars

---------------------------------------------------------------------------
(* Claims on construction and attribute assignment (specification Spec) *)

\* C1: Stiefel(n, p, k) raises exactly when n < p, p < 1 or k < 1, and
\* FixedRankEmbedded(m, n, k) raises exactly when not 1 <= k <= min(m, n);
\* an instance that exists has valid shape parameters.
C1_ShapeValidation ==
    /\ call.op = "Stiefel" =>
         LET n == call.args[1]  p == call.args[2]  k == call.args[3]
         IN  /\ (outcome # "") <=> (n < p \/ p < 1 \/ k < 1)
             /\ outcome = "" =>
                  obj.cls = "Stiefel" /\ <<obj._n, obj._p, obj._k>> = <<n, p, k>>
    /\ call.op = "FixedRankEmbedded" =>
         LET m == call.args[1]  n == call.args[2]  k == call.args[3]
         IN  /\ (outcome # "") <=> (k < 1 \/ k > m \/ k > n \/ m < 1 \/ n < 1)
             /\ outcome = "" =>
                  obj.cls = "FixedRankEmbedded" /\ <<obj._m, obj._n, obj._k>> = <<m, n, k>>
    /\ outcome # "" /\ call.op # "setattr" => obj = NoObj
    /\ obj.cls = "Stiefel" => obj._n >= obj._p /\ obj._p >= 1 /\ obj._k >= 1
    /\ obj.cls = "FixedRankEmbedded" =>
         1 <= obj._k /\ obj._k <= obj._m /\ obj._k <= obj._n

\* a FixedRankEmbedded call with 1 <= n < k <= m, which raised
C1_Witness ==
    /\ call.op = "FixedRankEmbedded"
    /\ call.args[3] <= call.args[1] /\ call.args[3] > call.args[2] /\ call.args[2] >= 1
    /\ outcome # ""

\* C2: Product(*manifolds) raises exactly when there is no argument, when an
\* argument is no manifold, or when an argument is a Product; otherwise it
\* stores the arguments in the given order and count.
C2_ProductConstruction ==
    call.op = "Product" =>
        /\ (outcome # "") <=>
              \/ Len(given) = 0
              \/ \E i \in 1..Len(given) :
                    given[i].cls \notin {"Stiefel", "FixedRankEmbedded"}
        /\ outcome # "" => obj = NoObj
        /\ outcome = "" =>
              /\ obj.cls = "Product"
              /\ Len(Factors(obj)) = Len(given)
              /\ \A i \in 1..Len(given) : Factors(obj)[i] = given[i]

\* a Product of two different factors was constructed
C2_Witness ==
    /\ call.op = "Product" /\ outcome = ""
    /\ Len(given) = 2 /\ given[1] # given[2]
    /\ Factors(obj) = given

\* C3 (as claimed): every assignment product.manifolds = value raises an
\* AttributeError, and the factors of the Product stay those given at
\* construction.
C3_ManifoldsImmutable ==
    /\ (call.op = "setattr" /\ call.args[1] = "manifolds") =>
          outcome = "AttributeError: Cannot override 'manifolds' attribute"
    /\ obj.cls = "Product" => Factors(obj) = given

---------------------------------------------------------------------------
(* Claims on FixedRankEmbedded in use (specification SpecFR) *)

\* the point held is (U, S, Vt) with U column-orthonormal and Vt row-orthonormal
FRPointHeld == frX # NoPoint /\ OrthoCols(frX[1]) /\ OrthoCols(T(frX[3]))

\* C4: the S of the point returned by rand() and by every retr step of a chain
\* starting there has length k, non-negative entries and descending order,
\* and the S returned by retr is strictly positive.
C4_PointInvariantOnS ==
    frX # NoPoint =>
        /\ Len(frX[2]) = frMan._k
        /\ \A i \in 1..Len(frX[2]) : IsFinite(frX[2][i]) /\ RLeq(Zero, frX[2][i])
        /\ \A i \in 1..(Len(frX[2]) - 1) : RLeq(frX[2][i + 1], frX[2][i])
        /\ frXby = "retr" => \A i \in 1..Len(frX[2]) : RLess(Zero, frX[2][i])

\* a second retr step of a chain returned a point with two distinct singular values
C4_Witness ==
    /\ frX # NoPoint /\ frXby = "retr" /\ frRetrs = 2
    /\ Len(frX[2]) = 2 /\ RLess(frX[2][2], frX[2][1])

\* U^T Up = 0 and V^T Vp = 0 for the tangent triple G at the point X
TangentConstraint(X, G) ==
    /\ IsZeroMat(MatMul(T(X[1]), G.t[1]))
    /\ IsZeroMat(MatMul(X[3], G.t[3]))

\* C5 (as stated): every tangent triple returned by proj, egrad2rgrad, randvec,
\* zerovec and transp at a point with orthonormal U and V, and every result of
\* +, -, scalar * and unary - on such triples, satisfies U^T Up = 0 and
\* V^T Vp = 0.
C5_TangentConstraint ==
    (FRPointHeld /\ frG # NoVec /\ frAt = "cur") => TangentConstraint(frX, frG)

\* C5 (amended): the constraints hold for every such triple whose Up and Vp are
\* finite, and only a division by zero in egrad2rgrad or in randvec's
\* normalisation, carried on by transp and the arithmetic, makes entries
\* non-finite.
C5_TangentConstraintWhenFinite ==
    (FRPointHeld /\ frG # NoVec /\ frAt = "cur") =>
        /\ (IsFiniteMat(frG.t[1]) /\ IsFiniteMat(frG.t[3])) => TangentConstraint(frX, frG)
        /\ ~frDirty[1] => IsFiniteVec(frG)

\* transp carried a vector with non-zero Up and Vp to the point retr returned
C5_Witness ==
    /\ FRPointHeld /\ frOp = "transp" /\ IsFiniteVec(frG)
    /\ ~IsZeroMat(frG.t[1]) /\ ~IsZeroMat(frG.t[3])
    /\ TangentConstraint(frX, frG)

\* the entries of S are pairwise distinct and non-zero
DistinctNonZero(S) ==
    /\ \A i \in 1..Len(S) : ~IsZero(S[i])
    /\ \A i \in 1..Len(S) : \A j \in 1..Len(S) : i # j => S[i] # S[j]

\* C10: the gap-weight denominator of egrad2rgrad is 1 on the diagonal, and zero
\* off the diagonal exactly when s_i^2 = s_j^2; the divisor of Up and Vp is S,
\* zero exactly where s_i = 0; so no divisor is zero iff the entries of S are
\* pairwise distinct and non-zero.
C10_ZeroDivisors ==
    frOp = "egrad2rgrad" =>
        /\ \A i \in 1..Len(frX[2]) : frDiv.f[i][i] = One
        /\ \A i \in 1..Len(frX[2]) : \A j \in 1..Len(frX[2]) :
              i # j => (IsZero(frDiv.f[i][j]) <=> RSquare(frX[2][i]) = RSquare(frX[2][j]))
        /\ frDiv.up = frX[2] /\ frDiv.vp = frX[2]
        /\ HasZeroDivisor(frDiv) <=> ~DistinctNonZero(frX[2])

\* egrad2rgrad ran at a point with S = (s, s), s > 0: only the off-diagonal gap
\* denominators are zero
C10_Witness ==
    /\ frOp = "egrad2rgrad" /\ Len(frX[2]) = 2
    /\ frX[2][1] = frX[2][2] /\ ~IsZero(frX[2][1])
    /\ IsZero(frDiv.f[1][2]) /\ IsZero(frDiv.f[2][1])
    /\ HasZeroDivisor(frDiv)

---------------------------------------------------------------------------
(* Claims on proj and the metric queries, checked under SpecMN *)

\* C6 (as stated): for a Stiefel, a FixedRankEmbedded and a Product, proj
\* applied to the value proj returned gives that value again:
\* proj(X, proj(X, Z)) = proj(X, Z).
C6_ProjIdempotent ==
    mnAgain => mnG = mnH

\* C7: Product.inner(X, G, H) is the plain sum over the factors k of
\* M_k.inner(X[k], G[k], H[k]).
C7_InnerIsPlainSum ==
    (mnMan.cls = "Product" /\ mnOut.op = "inner") =>
        /\ Len(mnOut.parts) = Len(Factors(mnMan))
        /\ mnOut.value = RSumSeq(mnOut.parts)

\* Product.inner ran on two different tangent vectors whose factor inner
\* products are all non-zero
C7_Witness ==
    /\ mnMan.cls = "Product" /\ mnOut.op = "inner" /\ mnG # mnH
    /\ \A k \in 1..Len(mnOut.parts) : ~IsZero(mnOut.parts[k])
    /\ mnOut.value = RSumSeq(mnOut.parts)

\* v is the non-negative root of the sum of the squares of parts
IsRootSumSquares(v, parts) ==
    /\ RLeq(Zero, v)
    /\ RSquare(v) = RSumSeq([k \in 1..Len(parts) |-> RSquare(parts[k])])

\* C8 (as stated): each of Product.inner, dist, typicaldist and norm is the
\* square root of the sum over the factors of the square of the factor's own
\* value of the same quantity.
C8_AllRootSumSquares ==
    (mnMan.cls = "Product" /\ mnOut.op \in {"inner", "dist", "typicaldist", "norm"}) =>
        IsRootSumSquares(mnOut.value, mnOut.parts)

\* C8 (amended): Product.dist, typicaldist and norm are the root of the sum of
\* the squares of the factors' values; Product.inner is not, it is the sum of
\* the factors' inner products without squares or root.
C8_RootSumSquaresButInner ==
    mnMan.cls = "Product" =>
        /\ mnOut.op \in {"dist", "typicaldist", "norm"} =>
              IsRootSumSquares(mnOut.value, mnOut.parts)
        /\ mnOut.op = "inner" =>
              mnOut.value = RSumSeq([k \in 1..Len(mnOut.parts) |-> mnOut.parts[k]])

\* Product.norm ran on a tangent vector with two non-zero factor norms
C8_Witness ==
    /\ mnMan.cls = "Product" /\ mnOut.op = "norm"
    /\ \A k \in 1..Len(mnOut.parts) : ~IsZero(mnOut.parts[k])
    /\ IsRootSumSquares(mnOut.value, mnOut.parts)

---------------------------------------------------------------------------
(* Claim on the delegation of a Product to its factors, checked under       *)
(* SpecDeleg                                                                *)

DelegatedOps ==
    {"proj", "egrad2rgrad", "ehess2rhess", "exp", "retr", "log", "rand", "randvec",
     "transp", "pairmean", "zerovec"}

\* the k-th components of the arguments of the last call
Components(k) == [i \in 1..Len(dgCall.args) |-> dgCall.args[i].t[k]]

\* what the k-th element of the result of the last call has to be
ExpectedItem(k) ==
    IF dgCall.op = "randvec"
    THEN ItemMul(RInv(RSqrt(Int2R(Len(Factors(dgMan))))),
                 FactorCall("randvec", Factors(dgMan)[k], Components(k)))
    ELSE IF dgCall.op \in DelegatedOps
    THEN FactorCall(dgCall.op, Factors(dgMan)[k], Components(k))
    ELSE IF dgCall.op = "__add__" THEN ItemAdd(Components(k)[1], Components(k)[2])
    ELSE IF dgCall.op = "__sub__" THEN ItemSub(Components(k)[1], Components(k)[2])
    ELSE IF dgCall.op = "__mul__" THEN ItemMul(dgCall.c, Components(k)[1])
    ELSE ItemNeg(Components(k)[1])

\* a point or tangent vector of the Product has one element per factor
HasFactorCount(v) == v # NoVec => Len(v.t) = Len(Factors(dgMan))

\* C9: for a Product of N factors, each of proj, egrad2rgrad, ehess2rhess, exp,
\* retr, log, rand, randvec, transp, pairmean and zerovec returns a sequence of
\* exactly N elements whose k-th element is factor k's operation of the same
\* name applied to the k-th components of the arguments, randvec's scaled by
\* 1/sqrt(N); this holds after any sequence of these operations and of +, -,
\* scalar * and unary - on the returned tangent vectors, which work element by
\* element.
C9_DelegationPositional ==
    dgCall.op # "" =>
        /\ Len(dgRes.t) = Len(Factors(dgMan))
        /\ \A k \in 1..Len(Factors(dgMan)) : dgRes.t[k] = ExpectedItem(k)
        /\ HasFactorCount(dgX) /\ HasFactorCount(dgY)
        /\ HasFactorCount(dgG) /\ HasFactorCount(dgH)

\* transp on a Product of three factors carried a negated tangent vector
\* between two points, the later one returned by retr
C9_Witness ==
    /\ dgCall.op = "transp" /\ Len(Factors(dgMan)) = 3
    /\ dgCall.args[3].t[1].op = "neg"
    /\ dgCall.args[2].t[1].op = "retr"
    /\ \A k \in 1..3 : dgRes.t[k].man = Factors(dgMan)[k]

---------------------------------------------------------------------------
(* Claim on the sign correction of Stiefel.retr, checked under SpecSt *)

IsNonNegative(a) == ~IsNaN(a) /\ a.n >= 0
IsNegative(a) == ~IsNaN(a) /\ a.n < 0

\* the factor f corrects the sign of the diagonal entry r
SignCorrected(r, f) ==
    /\ IsNonNegative(r) => f = One
    /\ IsNegative(r) => f = RNeg(One)
    /\ f # Zero
    /\ IsNonNegative(RMul(r, f))

\* the last retr recorded one entry and one factor per column of each of the
\* k blocks (one block for k = 1)
CorrectionPerBlock ==
    /\ Len(stDiag) = stMan._k /\ Len(stSign) = stMan._k
    /\ \A b \in 1..Len(stDiag) : Len(stDiag[b]) = stMan._p /\ Len(stSign[b]) = stMan._p

\* C11 (as stated): for every diagonal entry r of the R factor of the QR
\* factorisation of X + G, the factor sign(sign(r) + 0.5) is +1 when r >= 0,
\* -1 when r < 0 and never 0, so r times its factor is non-negative; in the
\* k = 1 branch and for each of the k blocks in the k > 1 branch.
C11_SignCorrection ==
    stOp = "retr" =>
        /\ CorrectionPerBlock
        /\ \A b \in 1..Len(stDiag) : \A i \in 1..Len(stDiag[b]) :
              SignCorrected(stDiag[b][i], stSign[b][i])

\* C11 (amended): the same for every diagonal entry r that is not NaN; for a
\* NaN entry the factor is NaN, and r times the factor is NaN, not a
\* non-negative number.
C11_SignCorrectionUnlessNaN ==
    stOp = "retr" =>
        /\ CorrectionPerBlock
        /\ \A b \in 1..Len(stDiag) : \A i \in 1..Len(stDiag[b]) :
              IF IsNaN(stDiag[b][i])
              THEN IsNaN(stSign[b][i]) /\ IsNaN(RMul(stDiag[b][i], stSign[b][i]))
              ELSE SignCorrected(stDiag[b][i], stSign[b][i])

\* retr on a Stiefel with k = 2 found a negative diagonal entry in the first
\* block and a positive one in the second, and corrected both
C11_Witness ==
    /\ stOp = "retr" /\ stMan._k = 2
    /\ IsNegative(stDiag[1][1]) /\ stSign[1][1] = RNeg(One)
    /\ IsNonNegative(stDiag[2][1]) /\ ~IsZero(stDiag[2][1]) /\ stSign[2][1] = One

===========================================================================
